---- MODULE Spec2Model ----
(***************************************************************************)
(* Employee record manager (v1 flat script, v2 layered CLI, v3 HTTP API).  *)
(* Text values are sequences of characters; a character is a one-element   *)
(* name: ASCII characters stand for themselves, other characters are named *)
(* by code point ("U+043C" is the Cyrillic small letter em).               *)
(***************************************************************************)
EXTENDS Integers, Sequences, FiniteSets, Bags, TLC

VARIABLES fn, input, out,
          version, today, tableExists, table, indexes, last, steps, proc,
          _logger_initialized, handlers, settings,
          conn, opened

(* the state of v2 core/logging.py: its flag, the handlers of the loguru   *)
(* logger, and the settings object                                         *)
logging == <<_logger_initialized, handlers, settings>>

(* the conn field of v1 EmployeeDB / v2 Database and the connections that    *)
(* are open                                                                *)
connections == <<conn, opened>>

vars == <<fn, input, out, version, today, tableExists, table, indexes, last, steps, proc,
          logging, connections>>

(***************************************************************************)
(* Bounds of the model.                                                    *)
(***************************************************************************)
MaxGenderLen == 2
MaxNameLen == 4
MaxOps == 2
MaxSpecial == 2
MaxTicks == 2
MaxBatch == 2

(***************************************************************************)
(* Characters and case mappings (Python str.lower / str.upper /            *)
(* str.capitalize on one character).  A mapping yields a sequence because  *)
(* some characters expand: U+0149 upper-cases to U+02BC followed by N.     *)
(***************************************************************************)
AsciiCasePairs ==
    { <<"m", "M">>, <<"a", "A">>, <<"l", "L">>, <<"e", "E">>, <<"f", "F">>,
      <<"n", "N">>, <<"s", "S">>, <<"t", "T">>, <<"o", "O">>, <<"x", "X">>,
      <<"k", "K">>, <<"u", "U">>, <<"r", "R">>, <<"b", "B">>, <<"h", "H">>,
      <<"i", "I">>, <<"j", "J">> }
CyrillicCasePairs == { <<"U+043C", "U+041C">>, <<"U+0436", "U+0416">> }
CasePairs == AsciiCasePairs \cup CyrillicCasePairs

LowerChar(c) ==
    IF \E p \in CasePairs : p[2] = c
    THEN <<(CHOOSE p \in CasePairs : p[2] = c)[1]>>
    ELSE <<c>>

UpperChar(c) ==
    IF c = "U+0149" THEN <<"U+02BC", "N">>
    ELSE IF \E p \in CasePairs : p[1] = c
         THEN <<(CHOOSE p \in CasePairs : p[1] = c)[2]>>
         ELSE <<c>>

RECURSIVE MapChars(_, _)
MapChars(s, k) ==
    IF s = <<>> THEN <<>>
    ELSE (IF k = "lower" THEN LowerChar(Head(s)) ELSE UpperChar(Head(s)))
         \o MapChars(Tail(s), k)

lower(s) == MapChars(s, "lower")

IsSpace(c) == c \in {" ", "\t"}

(***************************************************************************)
(* Results of operations that may raise.                                   *)
(***************************************************************************)
Ok(v) == [ok |-> TRUE, val |-> v, err |-> "none"]
Raise(e) == [ok |-> FALSE, val |-> <<>>, err |-> e]

Male == <<"M", "a", "l", "e">>
Female == <<"F", "e", "m", "a", "l", "e">>

MaleSpellings == { <<"U+043C">>, <<"m">>, <<"m", "a", "l", "e">>, <<"1">> }
FemaleSpellings == { <<"U+0436">>, <<"f">>, <<"f", "e", "m", "a", "l", "e">>, <<"2">> }

(* mutants of _normalize_gender: the v1 shortcut (anything else is Female), *)
(* and a comparison that forgets to lower-case                             *)
_normalize_gender_else_female(gender) ==
    IF lower(gender) \in MaleSpellings THEN Ok(Male) ELSE Ok(Female)

_normalize_gender_case_sensitive(gender) ==
    IF gender \in MaleSpellings THEN Ok(Male)
    ELSE IF gender \in FemaleSpellings THEN Ok(Female)
    ELSE Raise("ValueError")

(* v2 Employee._normalize_gender *)
_normalize_gender(gender) ==
    LET g == lower(gender)
    IN  IF g \in MaleSpellings THEN Ok(Male)
        ELSE IF g \in FemaleSpellings THEN Ok(Female)
        ELSE Raise("ValueError")


(* v1 EmployeeDB.add_employee / v3 create_employee: inline normalization *)
normalize_gender_inline(gender) ==
    IF lower(gender) \in MaleSpellings THEN Male ELSE Female

(***************************************************************************)
(* Name normalization: ' '.join(part.capitalize() for part in name.split()) *)
(***************************************************************************)
(* str.split() with no argument: maximal runs of non-whitespace *)
RECURSIVE split(_, _, _)
split(s, cur, acc) ==
    IF s = <<>>
    THEN (IF cur = <<>> THEN acc ELSE Append(acc, cur))
    ELSE IF IsSpace(Head(s))
         THEN split(Tail(s), <<>>, IF cur = <<>> THEN acc ELSE Append(acc, cur))
         ELSE split(Tail(s), Append(cur, Head(s)), acc)

(* str.capitalize(): first character title-cased (the same as upper-cased  *)
(* for every character of CasePairs and for U+0149), the rest lower-cased  *)
capitalize(part) ==
    IF part = <<>> THEN <<>>
    ELSE UpperChar(Head(part)) \o lower(Tail(part))

RECURSIVE join(_)
join(parts) ==
    IF parts = <<>> THEN <<>>
    ELSE IF Len(parts) = 1 THEN parts[1]
    ELSE parts[1] \o <<" ">> \o join(Tail(parts))

(* mutant of _normalize_name: upper-cases the first character of each part *)
(* and leaves the rest as typed                                            *)
_normalize_name_keep_rest(name) ==
    LET parts == split(name, <<>>, <<>>)
    IN  join([i \in 1..Len(parts) |->
                IF parts[i] = <<>> THEN <<>>
                ELSE UpperChar(Head(parts[i])) \o Tail(parts[i])])

(* v2 Employee._normalize_name *)
_normalize_name(name) ==
    LET parts == split(name, <<>>, <<>>)
    IN  join([i \in 1..Len(parts) |-> capitalize(parts[i])])

(***************************************************************************)
(* Calendar dates.  A date object is a record [y, m, d]; a date text is a  *)
(* sequence of characters.                                                 *)
(***************************************************************************)
Digits == <<"0", "1", "2", "3", "4", "5", "6", "7", "8", "9">>
IsDigit(c) == \E i \in 1..10 : Digits[i] = c
DigitVal(c) == (CHOOSE i \in 1..10 : Digits[i] = c) - 1

RECURSIVE ToNumber(_)
ToNumber(s) ==
    IF s = <<>> THEN 0
    ELSE ToNumber(SubSeq(s, 1, Len(s) - 1)) * 10 + DigitVal(s[Len(s)])

TwoDigits(n) == <<Digits[(n \div 10) + 1], Digits[(n % 10) + 1]>>
FourDigits(n) == TwoDigits(n \div 100) \o TwoDigits(n % 100)

IsLeap(y) == (y % 4 = 0 /\ y % 100 # 0) \/ y % 400 = 0
DaysInMonth(y, m) ==
    IF m = 2 THEN (IF IsLeap(y) THEN 29 ELSE 28)
    ELSE IF m \in {4, 6, 9, 11} THEN 30 ELSE 31
ValidDate(y, m, d) == m \in 1..12 /\ d \in 1..DaysInMonth(y, m)

(* date.isoformat() *)
isoformat(dt) == FourDigits(dt.y) \o <<"-">> \o TwoDigits(dt.m) \o <<"-">> \o TwoDigits(dt.d)

(* mutant of calculate_age: compares the month only *)
calculate_age_month_only(birth_date, now) ==
    IF now.m < birth_date.m THEN now.y - birth_date.y - 1 ELSE now.y - birth_date.y

(* v2 Employee.calculate_age, with today as a parameter *)
calculate_age(birth_date, now) ==
    LET age == now.y - birth_date.y
        before == now.m < birth_date.m
                  \/ (now.m = birth_date.m /\ now.d < birth_date.d)
    IN  IF before THEN age - 1 ELSE age

(* SQLite strftime(fmt, text) on a date text: NULL unless the text is a    *)
(* zero-padded YYYY-MM-DD.  (SQLite rolls a day number past the end of the *)
(* month over into the next month; every text that reaches the table has   *)
(* passed strptime or comes from isoformat, so that case does not arise.)  *)
Null == <<"NULL">>
IsIsoText(s) ==
    /\ Len(s) = 10
    /\ s[5] = "-" /\ s[8] = "-"
    /\ \A i \in {1, 2, 3, 4, 6, 7, 9, 10} : IsDigit(s[i])
    /\ ToNumber(SubSeq(s, 6, 7)) \in 1..12
    /\ ToNumber(SubSeq(s, 9, 10)) \in 1..31

strftime(fmt, s) ==
    IF ~IsIsoText(s) THEN Null
    ELSE IF fmt = "%Y" THEN SubSeq(s, 1, 4)
    ELSE SubSeq(s, 6, 10)

(* text < text in SQL: lexicographic comparison *)
RECURSIVE TextLess(_, _)
TextLess(a, b) ==
    IF a = <<>> \/ b = <<>> THEN a = <<>> /\ b # <<>>
    ELSE IF Head(a) = Head(b) THEN TextLess(Tail(a), Tail(b))
    ELSE IF IsDigit(Head(a)) /\ IsDigit(Head(b)) THEN DigitVal(Head(a)) < DigitVal(Head(b))
    ELSE Head(a) = "-"

(* v1/v3: (strftime('%Y','now') - strftime('%Y',birth_date))               *)
(*        - (strftime('%m-%d','now') < strftime('%m-%d',birth_date))       *)
(* The value is [null, val]: SQL NULL when either strftime is NULL.        *)
sql_age(birth_text, now_text) ==
    IF strftime("%Y", birth_text) = Null \/ strftime("%Y", now_text) = Null
    THEN [null |-> TRUE, val |-> 0]
    ELSE [null |-> FALSE,
          val |-> (ToNumber(strftime("%Y", now_text)) - ToNumber(strftime("%Y", birth_text)))
                  - (IF TextLess(strftime("%m-%d", now_text), strftime("%m-%d", birth_text))
                     THEN 1 ELSE 0)]

(***************************************************************************)
(* datetime.strptime(text, '%Y-%m-%d'): the directives match               *)
(*   %Y  \d\d\d\d      %m  1[0-2]|0[1-9]|[1-9]                             *)
(*   %d  3[01]|[12]\d|0[1-9]|[1-9]| [1-9]                                  *)
(* the whole text must be consumed, and the date must exist.               *)
(***************************************************************************)
RECURSIVE SplitOn(_, _, _, _)
SplitOn(s, sep, cur, acc) ==
    IF s = <<>> THEN Append(acc, cur)
    ELSE IF Head(s) = sep THEN SplitOn(Tail(s), sep, <<>>, Append(acc, cur))
    ELSE SplitOn(Tail(s), sep, Append(cur, Head(s)), acc)

AllDigits(f) == \A i \in 1..Len(f) : IsDigit(f[i])
MatchesMonth(f) == /\ Len(f) \in {1, 2} /\ AllDigits(f) /\ ToNumber(f) \in 1..12
MatchesDay(f) ==
    \/ Len(f) \in {1, 2} /\ AllDigits(f) /\ ToNumber(f) \in 1..31
    \/ Len(f) = 2 /\ f[1] = " " /\ IsDigit(f[2]) /\ DigitVal(f[2]) \in 1..9
DayNumber(f) == IF f[1] = " " THEN DigitVal(f[2]) ELSE ToNumber(f)

strptime(text) ==
    LET f == SplitOn(text, "-", <<>>, <<>>)
    IN  IF /\ Len(f) = 3
           /\ Len(f[1]) = 4 /\ AllDigits(f[1]) /\ ToNumber(f[1]) >= 1
           /\ MatchesMonth(f[2]) /\ MatchesDay(f[3])
           /\ ValidDate(ToNumber(f[1]), ToNumber(f[2]), DayNumber(f[3]))
        THEN Ok([y |-> ToNumber(f[1]), m |-> ToNumber(f[2]), d |-> DayNumber(f[3])])
        ELSE Raise("ValueError")

(***************************************************************************)
(* date - timedelta(days=n), through the day number (date.toordinal up to  *)
(* a constant offset, which cancels in fromordinal(toordinal(d) - n))      *)
(***************************************************************************)
toordinal(dt) ==
    LET y == IF dt.m <= 2 THEN dt.y - 1 ELSE dt.y
        era == y \div 400
        yoe == y - era * 400
        mp == IF dt.m > 2 THEN dt.m - 3 ELSE dt.m + 9
        doy == (153 * mp + 2) \div 5 + dt.d - 1
        doe == yoe * 365 + yoe \div 4 - yoe \div 100 + doy
    IN  era * 146097 + doe

fromordinal(n) ==
    LET era == n \div 146097
        doe == n - era * 146097
        yoe == (doe - doe \div 1460 + doe \div 36524 - doe \div 146096) \div 365
        doy == doe - (365 * yoe + yoe \div 4 - yoe \div 100)
        mp == (5 * doy + 2) \div 153
        d == doy - (153 * mp + 2) \div 5 + 1
        m == IF mp < 10 THEN mp + 3 ELSE mp - 9
    IN  [y |-> (yoe + era * 400) + (IF m <= 2 THEN 1 ELSE 0), m |-> m, d |-> d]

minus_days(dt, n) == fromordinal(toordinal(dt) - n)

(***************************************************************************)
(* The employees table: a bag of rows [full_name, birth_date, gender],     *)
(* all three columns text.                                                 *)
(***************************************************************************)
Row(full_name, birth_date, gender) ==
    [full_name |-> full_name, birth_date |-> birth_date, gender |-> gender]

Copies(row, n) == IF n = 0 THEN EmptyBag ELSE [r \in {row} |-> n]

RECURSIVE BagOfSeq(_)
BagOfSeq(rows) ==
    IF rows = <<>> THEN EmptyBag ELSE Copies(Head(rows), 1) (+) BagOfSeq(Tail(rows))

(* SELECT ... FROM employees WHERE the row is one of keep *)
Select(tbl, keep) == [r \in (DOMAIN tbl) \cap keep |-> tbl[r]]

(* SQLite's LIKE with a pattern 'prefix%': ASCII letters compare without   *)
(* regard to case, every other character compares exactly                  *)
IsAsciiLetter(c) == \E p \in AsciiCasePairs : c \in {p[1], p[2]}
AsciiFold(c) == IF IsAsciiLetter(c) THEN LowerChar(c)[1] ELSE c

like_prefix(text, prefix) ==
    /\ Len(text) >= Len(prefix)
    /\ \A i \in 1..Len(prefix) : AsciiFold(text[i]) = AsciiFold(prefix[i])

(* v1 EmployeeDB.query_male_f, v3 query_male_f:                            *)
(*   WHERE gender = 'Male' AND full_name LIKE 'F%'                         *)
query_male_f(tbl) ==
    Select(tbl, {r \in DOMAIN tbl : r.gender = Male /\ like_prefix(r.full_name, <<"F">>)})

(* v2 Database.get_employees_by_gender_and_name_start (sqlite, the default *)
(* DB_TYPE): WHERE gender = ? AND full_name LIKE ?  with (gender, start%)  *)
get_employees_by_gender_and_name_start(tbl, gender, name_start) ==
    Select(tbl, {r \in DOMAIN tbl : r.gender = gender /\ like_prefix(r.full_name, name_start)})

(***************************************************************************)
(* The list query.  v1 groups by (full_name, birth_date): each group gives  *)
(* one result row that carries the gender of some row of the group; the    *)
(* operator yields every result the engine may produce.  v2 and v3 select  *)
(* every row.                                                              *)
(***************************************************************************)
GroupKey(r) == <<r.full_name, r.birth_date>>
RECURSIVE GroupPicks(_, _)
GroupPicks(tbl, keys) ==
    IF keys = {} THEN {{}}
    ELSE LET k == CHOOSE x \in keys : TRUE
         IN  {p \cup {m} : p \in GroupPicks(tbl, keys \ {k}),
                           m \in {r \in DOMAIN tbl : GroupKey(r) = k}}

EmployeeDB_get_all_employees(tbl) ==
    {SetToBag(p) : p \in GroupPicks(tbl, {GroupKey(r) : r \in DOMAIN tbl})}

(* mutant of get_all_employees: v3 with the GROUP BY of v1 *)
get_all_employees_grouped(tbl) == EmployeeDB_get_all_employees(tbl)

(* v3 GET /employees/: every row *)
get_all_employees(tbl) == {tbl}

(* ORDER BY full_name: the names of the result in the order of their bytes *)
(* (BINARY collation); the characters are those of table contents          *)
AsciiOrder ==
    <<" ", "0", "1", "2", "3", "4", "5", "6", "7", "8", "9",
      "A", "B", "C", "D", "E", "F", "G", "H", "I", "J", "K", "L", "M",
      "N", "O", "P", "Q", "R", "S", "T", "U", "V", "W", "X", "Y", "Z", "_",
      "a", "b", "c", "d", "e", "f", "g", "h", "i", "j", "k", "l", "m",
      "n", "o", "p", "q", "r", "s", "t", "u", "v", "w", "x", "y", "z">>
ord(c) ==
    IF \E i \in DOMAIN AsciiOrder : AsciiOrder[i] = c
    THEN CHOOSE i \in DOMAIN AsciiOrder : AsciiOrder[i] = c
    ELSE Len(AsciiOrder) + 1
RECURSIVE BinaryLess(_, _)
BinaryLess(a, b) ==
    IF a = <<>> \/ b = <<>> THEN a = <<>> /\ b # <<>>
    ELSE IF Head(a) = Head(b) THEN BinaryLess(Tail(a), Tail(b))
    ELSE ord(Head(a)) < ord(Head(b))
RECURSIVE order_by(_)
order_by(names) ==
    IF names = {} THEN <<>>
    ELSE LET m == CHOOSE n \in names : \A q \in names : ~BinaryLess(q, n)
         IN  <<m>> \o order_by(names \ {m})
order_by_full_name(rows) == order_by({r.full_name : r \in DOMAIN rows})

(***************************************************************************)
(* Infrastructure faults injected into one call: "connect" makes the       *)
(* connection fail, "sql" makes the call's own statement (its INSERT,      *)
(* SELECT or CREATE INDEX) fail with an sqlite3.Error.                     *)
(***************************************************************************)
Faults == {"none", "connect", "sql"}

(***************************************************************************)
(* add: the outcome is [ok, err, exc, status, row, creates].  err is the   *)
(* kind of error reported, exc the exception class that leaves the call,   *)
(* status the HTTP status (v3, otherwise 0), row the row inserted when ok, *)
(* creates tells whether the call ensured the table.                       *)
(***************************************************************************)
NoRow == Row(<<>>, <<>>, <<>>)
Added(row, status) ==
    [ok |-> TRUE, err |-> "none", exc |-> "none", status |-> status,
     row |-> row, creates |-> TRUE]
Failed(e, exc, status, creates) ==
    [ok |-> FALSE, err |-> e, exc |-> exc, status |-> status,
     row |-> NoRow, creates |-> creates]

(* v1 EmployeeDB.add_employee: returns True, or prints and returns False *)
EmployeeDB_add_employee(full_name, birth_date, gender, fault) ==
    IF ~strptime(birth_date).ok THEN Failed("ValueError", "none", 0, FALSE)
    ELSE IF fault = "connect" THEN Failed("Exception", "none", 0, FALSE)
    ELSE IF fault = "sql" THEN Failed("Exception", "none", 0, TRUE)
    ELSE Added(Row(full_name, birth_date, normalize_gender_inline(gender)), 0)

(* mutant of create_employee: a failed insert is reported as created *)
create_employee_swallow(full_name, birth_date, gender, fault) ==
    IF ~strptime(birth_date).ok THEN Failed("ValueError", "HTTPException", 400, FALSE)
    ELSE IF fault # "none" THEN Failed("none", "none", 201, FALSE)
    ELSE Added(Row(full_name, birth_date, normalize_gender_inline(gender)), 201)

(* v3 create_employee: 201, 400 on ValueError, 500 on any other exception *)
create_employee(full_name, birth_date, gender, fault) ==
    IF ~strptime(birth_date).ok THEN Failed("ValueError", "HTTPException", 400, FALSE)
    ELSE IF fault # "none" THEN Failed("Exception", "HTTPException", 500, FALSE)
    ELSE Added(Row(full_name, birth_date, normalize_gender_inline(gender)), 201)

(* mutant of EmployeeManager_add_employee: inserts before it validates *)
EmployeeManager_add_employee_insert_first(full_name, birth_date, gender_input, fault) ==
    LET dt == strptime(birth_date)
        g == _normalize_gender(gender_input)
    IN  IF fault # "none" THEN Failed("RuntimeError", "RuntimeError", 0, fault = "sql")
        ELSE IF ~dt.ok
        THEN [Failed("ValueError", "ValueError", 0, TRUE) EXCEPT
                 !.row = Row(_normalize_name(full_name), birth_date, Male), !.ok = TRUE]
        ELSE IF ~g.ok THEN Failed("ValueError", "ValueError", 0, TRUE)
        ELSE Added(Row(_normalize_name(full_name), isoformat(dt.val), g.val), 0)

(* v2 EmployeeManager.add_employee with Database.insert_employee *)
EmployeeManager_add_employee(full_name, birth_date, gender_input, fault) ==
    LET dt == strptime(birth_date)
        g == _normalize_gender(gender_input)
    IN  IF fault = "connect" THEN Failed("RuntimeError", "RuntimeError", 0, FALSE)
        ELSE IF ~dt.ok THEN Failed("ValueError", "ValueError", 0, TRUE)
        ELSE IF ~g.ok THEN Failed("ValueError", "ValueError", 0, TRUE)
        ELSE IF fault = "sql" THEN Failed("RuntimeError", "RuntimeError", 0, TRUE)
        ELSE Added(Row(_normalize_name(full_name), isoformat(dt.val), g.val), 0)

(***************************************************************************)
(* The exception class that leaves a call other than add when a fault is   *)
(* injected, from the try/except of each method, and whether the call has  *)
(* ensured the table before the fault strikes.                             *)
(***************************************************************************)
raises(v, op, fault) ==
    IF fault = "none" THEN "none"
    ELSE IF v = "v1"
         THEN (IF op \in {"generate", "query_male_f"} /\ fault = "sql"
               THEN "sqlite3.Error" ELSE "RuntimeError")
    ELSE IF v = "v2" THEN "RuntimeError"
    ELSE "Exception"

ensures(v, op, fault) ==
    /\ v \in {"v1", "v2"}
    /\ fault # "connect"
    /\ ~(v = "v1" /\ op = "optimize_database")

(***************************************************************************)
(* Indexes: CREATE INDEX IF NOT EXISTS name ON employees(cols)             *)
(***************************************************************************)
Index(name, cols) == [name |-> name, cols |-> cols]
FirstLetter == "substr(full_name, 1, 1)"

(* mutant of create_index: CREATE INDEX without IF NOT EXISTS *)
create_index_no_guard(exists, idx, ix) ==
    IF ~exists \/ (\E i \in idx : i.name = ix.name)
    THEN [ok |-> FALSE, indexes |-> idx]
    ELSE [ok |-> TRUE, indexes |-> idx \cup {ix}]

create_index(exists, idx, ix) ==
    IF ~exists THEN [ok |-> FALSE, indexes |-> idx]
    ELSE [ok |-> TRUE,
          indexes |-> IF \E i \in idx : i.name = ix.name THEN idx ELSE idx \cup {ix}]

RECURSIVE create_all(_, _, _)
create_all(exists, idx, ixs) ==
    IF ixs = <<>> THEN [ok |-> TRUE, indexes |-> idx]
    ELSE LET r == create_index(exists, idx, Head(ixs))
         IN  IF r.ok THEN create_all(exists, r.indexes, Tail(ixs)) ELSE r

CreateEvents(ixs) ==
    [i \in 1..Len(ixs) |-> [ev |-> "create_index", name |-> ixs[i].name]]
    \o <<[ev |-> "commit"]>>
QueryEvent(idx) == [ev |-> "query", sees |-> idx]

(* the three statements of v1 optimize_database / v3 optimize_database *)
OptimizeIndexes ==
    << Index("idx_gender_lastname", <<"gender", FirstLetter>>),
       Index("idx_gender", <<"gender">>),
       Index("idx_first_letter", <<FirstLetter>>) >>

(* mutant of CreateIndexes: v2 with the index columns of v1 and v3 *)
CreateIndexes_single_columns ==
    << Index("idx_gender_fname", <<"gender", FirstLetter>>),
       Index("idx_full_name", <<"gender">>),
       Index("idx_birth_date", <<FirstLetter>>) >>

(* the three statements of v2 Database.create_indexes *)
CreateIndexes ==
    << Index("idx_gender_fname", <<"gender", FirstLetter>>),
       Index("idx_full_name", <<"full_name">>),
       Index("idx_birth_date", <<"birth_date">>) >>

(* outcome of an optimize call: [exc, err, indexes, creates, trace] *)
Optimized(idx, creates, trace) ==
    [exc |-> "none", err |-> "none", indexes |-> idx, creates |-> creates, trace |-> trace]
OptimizeFailed(exc, err, idx, creates, trace) ==
    [exc |-> exc, err |-> err, indexes |-> idx, creates |-> creates, trace |-> trace]

(* v1 EmployeeDB.optimize_database: no _ensure_table_exists; an            *)
(* sqlite3.Error is re-raised as RuntimeError                              *)
EmployeeDB_optimize_database(exists, idx, fault) ==
    LET r == create_all(exists, idx, OptimizeIndexes)
    IN  IF fault = "connect" THEN OptimizeFailed("RuntimeError", "connect", idx, FALSE, <<>>)
        ELSE IF ~r.ok THEN OptimizeFailed("RuntimeError", "no such table", idx, FALSE, <<>>)
        ELSE IF fault = "sql" THEN OptimizeFailed("RuntimeError", "sql", idx, FALSE, <<>>)
        ELSE Optimized(r.indexes, FALSE, CreateEvents(OptimizeIndexes))

(***************************************************************************)
(* The measurements of an optimize routine: t is [before, after], the two  *)
(* durations measured (in clock ticks); the improvement is                 *)
(* (before - after) / before * 100, kept as the fraction [num, den].       *)
(***************************************************************************)
improvement(time_before, time_after) ==
    IF time_before = 0 THEN Raise("ZeroDivisionError")
    ELSE Ok([num |-> (time_before - time_after) * 100, den |-> time_before])

NoResult == [before |-> 0, after |-> 0, improvement |-> [num |-> 0, den |-> 1]]

(* r is the outcome of the queries and the index creation; the division    *)
(* follows them, and its ZeroDivisionError leaves as the class escapes     *)
Measured(r, t, escapes) ==
    LET i == improvement(t.before, t.after)
    IN  IF r.exc # "none" THEN r @@ [result |-> NoResult]
        ELSE IF ~i.ok
        THEN [r EXCEPT !.exc = escapes, !.err = i.err] @@ [result |-> NoResult]
        ELSE r @@ [result |-> [before |-> t.before, after |-> t.after,
                               improvement |-> i.val]]

(* mutant of handle_command_6: optimizes before the first measurement *)
handle_command_6_index_first(exists, idx, fault, t) ==
    LET o == EmployeeDB_optimize_database(TRUE, idx, "none")
    IN  Measured(
            IF fault # "none"
            THEN OptimizeFailed(raises("v1", "query_male_f", fault), fault, idx,
                                ensures("v1", "query_male_f", fault), <<>>)
            ELSE IF o.exc # "none" THEN [o EXCEPT !.creates = TRUE]
            ELSE Optimized(o.indexes, TRUE,
                           o.trace \o <<QueryEvent(o.indexes)>> \o <<QueryEvent(o.indexes)>>),
            t, "ZeroDivisionError")

(* v1 app.py mode / choice 6: query_male_f, optimize_database, query_male_f *)
handle_command_6(exists, idx, fault, t) ==
    LET o == EmployeeDB_optimize_database(TRUE, idx, "none")
    IN  Measured(
            IF fault # "none"
            THEN OptimizeFailed(raises("v1", "query_male_f", fault), fault, idx,
                                ensures("v1", "query_male_f", fault), <<>>)
            ELSE IF o.exc # "none"
            THEN [o EXCEPT !.creates = TRUE, !.trace = <<QueryEvent(idx)>>]
            ELSE Optimized(o.indexes, TRUE,
                           <<QueryEvent(idx)>> \o o.trace \o <<QueryEvent(o.indexes)>>),
            t, "ZeroDivisionError")

(* v2 EmployeeManager.optimize_and_test with Database.create_indexes *)
optimize_and_test(exists, idx, fault, t) ==
    LET r == create_all(TRUE, idx, CreateIndexes)
    IN  Measured(
            IF fault # "none"
            THEN OptimizeFailed("RuntimeError", fault, idx, ensures("v2", "optimize", fault), <<>>)
            ELSE IF ~r.ok
            THEN OptimizeFailed("RuntimeError", "create_indexes", idx, TRUE, <<QueryEvent(idx)>>)
            ELSE Optimized(r.indexes, TRUE,
                           <<QueryEvent(idx)>> \o CreateEvents(CreateIndexes)
                               \o <<QueryEvent(r.indexes)>>),
            t, "RuntimeError")

(* v3 optimize_database: one connection; SELECT, three CREATE INDEX,       *)
(* commit, SELECT                                                          *)
optimize_database(exists, idx, fault, t) ==
    LET r == create_all(exists, idx, OptimizeIndexes)
    IN  Measured(
            IF fault # "none" \/ ~r.ok
            THEN OptimizeFailed("Exception", IF fault # "none" THEN fault ELSE "no such table",
                                idx, FALSE, <<>>)
            ELSE Optimized(r.indexes, FALSE,
                           <<QueryEvent(idx)>> \o CreateEvents(OptimizeIndexes)
                               \o <<QueryEvent(r.indexes)>>),
            t, "Exception")

(***************************************************************************)
(* Bulk generation.  The random choices of one call are one draw rnd =     *)
(* [gender, edge]: every main row of the call gets the gender rnd.gender,  *)
(* and every birth date lies at the young or the old edge of the range.    *)
(***************************************************************************)
batch_size == 10000

RECURSIVE str(_)
str(n) == IF n < 10 THEN <<Digits[n + 1]>> ELSE str(n \div 10) \o <<Digits[(n % 10) + 1]>>

Lastname == <<"L", "a", "s", "t", "n", "a", "m", "e">>
Name == <<"N", "a", "m", "e">>
Fake_ == <<"F", "a", "k", "e", "_">>
Surname == <<"S", "u", "r", "n", "a", "m", "e">>

(* randint(18 * 365, 65 * 365) *)
randint_days(rnd) == IF rnd.edge = "young" THEN 18 * 365 ELSE 65 * 365

(* the special records i .. special - 1: their names differ, so each row is *)
(* there once                                                              *)
special_rows(i, special, birth_text) ==
    SetToBag({Row(Fake_ \o str(j) \o <<" ">> \o Surname, birth_text, Male) :
                 j \in i..(special - 1)})

(* v1 EmployeeDB.generate_test_data, v3 generate_test_data: the rows       *)
(* inserted and the number reported                                        *)
generate_test_data(now, count, special, rnd) ==
    LET birth_text == isoformat(minus_days(now, randint_days(rnd)))
        main == Copies(Row(Lastname \o str(1000) \o <<" ">> \o Name \o str(1),
                           birth_text, rnd.gender), count)
        spec == special_rows(0, special, birth_text)
    IN  [ok |-> TRUE, rows |-> main (+) spec, special |-> spec, count |-> count + special]

(* One sqlite3 connection: INSERT statements open a transaction whose rows *)
(* are pending; commit stores them; closing the connection (v1 _close, the *)
(* end of v3's async with) discards what is still pending.                 *)
sqlite_commit(stored, pending) == [stored |-> stored (+) pending, pending |-> EmptyBag]
(* mutant of sqlite_close: closing commits *)
sqlite_close_commits(stored, pending) == stored (+) pending
sqlite_close(stored, pending) == stored

(* the rows of the first n INSERT statements of a generate_test_data call *)
executed(now, count, special, rnd, n) ==
    IF n <= count THEN generate_test_data(now, n, 0, rnd).rows
    ELSE generate_test_data(now, count, n - count, rnd).rows

(* v1 EmployeeDB.generate_test_data, v3 generate_test_data as one          *)
(* transaction on the table stored; INSERT number fail_at raises (0: none) *)
generate_test_data_on(stored, now, count, special, rnd, fail_at) ==
    IF fail_at = 0
    THEN LET c == sqlite_commit(stored, executed(now, count, special, rnd, count + special))
         IN  [ok |-> TRUE, table |-> sqlite_close(c.stored, c.pending),
              count |-> count + special]
    ELSE [ok |-> FALSE,
          table |-> sqlite_close(stored, executed(now, count, special, rnd, fail_at - 1)),
          count |-> 0]

(* v2 Employee.__post_init__ *)
Employee(full_name, birth_date, gender) ==
    LET g == _normalize_gender(gender)
    IN  IF g.ok THEN Ok(Row(_normalize_name(full_name), birth_date, g.val))
        ELSE Raise("ValueError")

(* v2 EmployeeManager.batch_add_employees with Database.batch_insert_employees *)
(* on n entries with the same data: the rows inserted; cursor.rowcount is  *)
(* their number                                                            *)
batch_add_employees(full_name, birth_date, gender, n) ==
    LET emp == Employee(full_name, birth_date, gender)
    IN  IF emp.ok
        THEN Copies(Row(emp.val.full_name, isoformat(emp.val.birth_date), emp.val.gender), n)
        ELSE EmptyBag

(* v2 Database.get_all_employees and EmployeeManager.get_all_employees:    *)
(* every row, its birth_date parsed with strptime, rebuilt as an Employee  *)
(* (normalized again); any failure is raised as RuntimeError                *)
EmployeeOf(r) ==
    LET d == strptime(r.birth_date)
    IN  IF d.ok THEN Employee(r.full_name, d.val, r.gender) ELSE Raise("ValueError")
RECURSIVE employees_of(_, _)
employees_of(tbl, rs) ==
    IF rs = {} THEN EmptyBag
    ELSE LET r == CHOOSE x \in rs : TRUE
         IN  Copies(EmployeeOf(r).val, tbl[r]) (+) employees_of(tbl, rs \ {r})
EmployeeManager_get_all_employees(tbl) ==
    IF \A r \in DOMAIN tbl : EmployeeOf(r).ok
    THEN Ok(employees_of(tbl, DOMAIN tbl))
    ELSE Raise("RuntimeError")

(* v2 EmployeeManager.batch_add_employees on a list of dictionaries: the    *)
(* validation loop.  A dictionary is a record; a lookup of a key it lacks  *)
(* raises KeyError, an unknown gender ValueError, and both are skipped.    *)
EmployeeFrom(emp_data) ==
    IF ~({"full_name", "birth_date", "gender"} \subseteq DOMAIN emp_data)
    THEN Raise("KeyError")
    ELSE Employee(emp_data.full_name, emp_data.birth_date, emp_data.gender)

RECURSIVE valid_employees(_)
valid_employees(employees_data) ==
    IF employees_data = <<>> THEN <<>>
    ELSE LET emp == EmployeeFrom(Head(employees_data))
         IN  (IF emp.ok THEN <<emp.val>> ELSE <<>>) \o valid_employees(Tail(employees_data))

(* v2 Database.batch_insert_employees: one executemany, one commit; the    *)
(* dates are written with isoformat(); cursor.rowcount is returned         *)
RECURSIVE batch_insert_employees(_)
batch_insert_employees(employees) ==
    IF employees = <<>> THEN [rows |-> EmptyBag, rowcount |-> 0]
    ELSE LET emp == Head(employees)
             rest == batch_insert_employees(Tail(employees))
         IN  [rows |-> Copies(Row(emp.full_name, isoformat(emp.birth_date), emp.gender), 1)
                           (+) rest.rows,
              rowcount |-> 1 + rest.rowcount]

(* mutant of EmployeeManager_batch_add_employees: an invalid entry aborts the batch *)
EmployeeManager_batch_add_employees_abort(employees_data) ==
    IF \E i \in DOMAIN employees_data : ~EmployeeFrom(employees_data[i]).ok
    THEN [ok |-> FALSE, exc |-> "RuntimeError", rows |-> EmptyBag, added_count |-> 0]
    ELSE LET r == batch_insert_employees(valid_employees(employees_data))
         IN  [ok |-> TRUE, exc |-> "none", rows |-> r.rows, added_count |-> r.rowcount]

EmployeeManager_batch_add_employees(employees_data) ==
    LET r == batch_insert_employees(valid_employees(employees_data))
    IN  [ok |-> TRUE, exc |-> "none", rows |-> r.rows, added_count |-> r.rowcount]

(* faker: last_name(), first_name_male() / first_name_female(), and        *)
(* date_of_birth(minimum_age=18, maximum_age=65)                           *)
fake_last_name(rnd) == IF rnd.gender = Male THEN <<"F", "o", "x">> ELSE <<"S", "m", "i", "t", "h">>
fake_first_name(rnd) == IF rnd.gender = Male THEN <<"A", "l">> ELSE <<"A", "n", "n">>
fake_date_of_birth(now, rnd) ==
    IF rnd.edge = "young" THEN [now EXCEPT !.y = now.y - 18]
    ELSE minus_days([now EXCEPT !.y = now.y - 66], -1)

(* k batches with the same rows *)
Times(bag, k) == IF k = 0 THEN EmptyBag ELSE [r \in DOMAIN bag |-> bag[r] * k]

(* mutant of EmployeeManager_generate_test_data: the special batch keeps   *)
(* the gender of the draw                                                  *)
EmployeeManager_generate_test_data_random_special(now, count, special_count, rnd) ==
    LET dob == fake_date_of_birth(now, rnd)
        batch == batch_add_employees(fake_last_name(rnd) \o <<" ">> \o fake_first_name(rnd),
                                     dob, rnd.gender, batch_size)
        main == Times(batch, count \div batch_size)
        spec == batch_add_employees(Fake_ \o <<"S", "m", "i", "t", "h">> \o <<" ">> \o <<"A", "l">>,
                                    dob, rnd.gender, special_count)
    IN  [ok |-> TRUE, rows |-> main (+) spec, special |-> spec,
         count |-> BagCardinality(main) + BagCardinality(spec)]

(* v2 EmployeeManager.generate_test_data *)
EmployeeManager_generate_test_data(now, count, special_count, rnd) ==
    LET dob == fake_date_of_birth(now, rnd)
        batch == batch_add_employees(fake_last_name(rnd) \o <<" ">> \o fake_first_name(rnd),
                                     dob, rnd.gender, batch_size)
        main == Times(batch, count \div batch_size)
        spec == batch_add_employees(Fake_ \o <<"S", "m", "i", "t", "h">> \o <<" ">> \o <<"A", "l">>,
                                    dob, Male, special_count)
    IN  [ok |-> TRUE, rows |-> main (+) spec, special |-> spec,
         count |-> BagCardinality(main) + BagCardinality(spec)]

(***************************************************************************)
(* v2 core/logging.py.  A handler of the logger is [sink, level]; loguru   *)
(* starts with one handler on stderr.  A level is text.                    *)
(***************************************************************************)
DEBUG == <<"D", "E", "B", "U", "G">>
INFO == <<"I", "N", "F", "O">>
WARNING == <<"W", "A", "R", "N", "I", "N", "G">>
ERROR == <<"E", "R", "R", "O", "R">>
CRITICAL == <<"C", "R", "I", "T", "I", "C", "A", "L">>
valid_levels == {DEBUG, INFO, WARNING, ERROR, CRITICAL}

Handler(sink, level) == [sink |-> sink, level |-> level]
DefaultHandlers == {Handler("stderr", DEBUG)}

(* core/config.py Settings with its defaults for the levels; dir_ok tells   *)
(* whether the log directory can be created and written                    *)
Settings(to_console, to_json, dir_ok) ==
    [LOG_LEVEL_FILE |-> INFO, LOG_LEVEL_CONSOLE |-> INFO, LOG_TO_CONSOLE |-> to_console,
     LOG_TO_JSON |-> to_json, DEBUG_MODE |-> FALSE, dir_ok |-> dir_ok]

AtImport(to_console, to_json, dir_ok) ==
    /\ _logger_initialized = FALSE
    /\ handlers = DefaultHandlers
    /\ settings = Settings(to_console, to_json, dir_ok)

(* the sinks list of _setup_logger, the enabled ones *)
sinks(s) ==
    (IF s.LOG_TO_CONSOLE THEN {Handler("console", s.LOG_LEVEL_CONSOLE)} ELSE {})
    \cup {Handler("file", s.LOG_LEVEL_FILE)}
    \cup (IF s.LOG_TO_JSON THEN {Handler("json", s.LOG_LEVEL_FILE)} ELSE {})

LogState(initialized, h, exc) == [initialized |-> initialized, handlers |-> h, exc |-> exc]

(* mutant of _setup_logger: configures the sinks on every call *)
_setup_logger_always(initialized, h, s) ==
    IF ~s.dir_ok THEN LogState(initialized, h, "LoggingSetupError")
    ELSE IF \E x \in sinks(s) : x.level \notin valid_levels
    THEN LogState(initialized, {}, "LoggingSetupError")
    ELSE LogState(TRUE, sinks(s), "none")

(* _setup_logger: returns at once when the flag is set; otherwise removes  *)
(* every handler and adds the enabled sinks; any failure is raised as      *)
(* LoggingSetupError                                                       *)
_setup_logger(initialized, h, s) ==
    IF initialized THEN LogState(initialized, h, "none")
    ELSE IF ~s.dir_ok THEN LogState(initialized, h, "LoggingSetupError")
    ELSE IF \E x \in sinks(s) : x.level \notin valid_levels
    THEN LogState(initialized, {}, "LoggingSetupError")
    ELSE LogState(TRUE, sinks(s), "none")

WithLevel(s, level) ==
    [s EXCEPT !.LOG_LEVEL_FILE = MapChars(level, "upper"),
              !.LOG_LEVEL_CONSOLE = MapChars(level, "upper")]

(* init_logger(level); level <<>> stands for None *)
init_logger(initialized, h, s, level) ==
    LET default_level == IF level # <<>> THEN level
                         ELSE IF s.DEBUG_MODE THEN DEBUG ELSE INFO
    IN  IF initialized THEN LogState(initialized, h, "none") @@ [settings |-> s]
        ELSE _setup_logger(initialized, h, WithLevel(s, default_level))
                 @@ [settings |-> WithLevel(s, default_level)]

(* set_log_level(level) *)
set_log_level(initialized, h, s, level) ==
    IF MapChars(level, "upper") \notin valid_levels
    THEN LogState(initialized, h, "ValueError") @@ [settings |-> s]
    ELSE _setup_logger(initialized, {}, WithLevel(s, level))
             @@ [settings |-> WithLevel(s, level)]

(***************************************************************************)
(* Connections.  c is [conn, opened]: the conn field and the set of open   *)
(* connections, each named after the method that opened it.                *)
(***************************************************************************)
None == "None"
Disconnected == conn = None /\ opened = {}

(* v1 _connect, v2 connect: a new connection is stored in the conn field *)
_connect(c, by) == [conn |-> by, opened |-> c.opened \cup {by}]

(* v1 _close, v2 close: closes the connection the conn field holds *)
_close(c) == IF c.conn = None THEN c ELSE [conn |-> None, opened |-> c.opened \ {c.conn}]

(* v1 create_table: connects, creates, closes in its finally clause *)
EmployeeDB_create_table(c) == _close(_connect(c, "create_table"))

(* v1 _ensure_table_exists: connects, looks the table up, calls create_table *)
(* when it is missing, and closes what the conn field holds then           *)
_ensure_table_exists(c, exists) ==
    LET c1 == _connect(c, "_ensure_table_exists")
    IN  _close(IF exists THEN c1 ELSE EmployeeDB_create_table(c1))

(* a public method of v1 EmployeeDB: the methods other than create_table   *)
(* and optimize_database ensure the table first (creating tells whether    *)
(* that call found it missing), then work on a connection of their own     *)
EmployeeDB_connections(c, op, creating, fault) ==
    IF op = "none" \/ fault = "connect" THEN _close(c)
    ELSE IF op = "create_table" THEN EmployeeDB_create_table(c)
    ELSE IF op = "optimize_database" THEN _close(_connect(c, op))
    ELSE _close(_connect(IF creating THEN _ensure_table_exists(c, FALSE) ELSE c, op))

(* v2 Database: _execute, batch_insert_employees and create_indexes each   *)
(* connect and close in their finally clause                               *)
Database_connections(c, op, fault) ==
    IF op = "none" \/ fault = "connect" THEN c
    ELSE _close(_connect(c, op))

(* a connection no variable refers to any more is closed when the garbage  *)
(* collector finds it: at once, or later, here by the next operation       *)
collected(c) == [c EXCEPT !.opened = c.opened \cap {c.conn}]
collect(c) == {c, collected(c)}

(* what the operation recorded in last' does to the connections *)
Connected ==
    LET op == IF last'.op \in {"menu", "cmd"} THEN last'.did ELSE last'.op
        c == collected([conn |-> conn, opened |-> opened])
        after == CASE version = "v1" ->
                        EmployeeDB_connections(c, op, ~tableExists /\ tableExists', last'.fault)
                   [] version = "v2" -> Database_connections(c, op, last'.fault)
                   [] OTHER -> c
    IN  \E r \in collect(after) : conn' = r.conn /\ opened' = r.opened

(***************************************************************************)
(* Spec: one of the three programs working on its database.                *)
(***************************************************************************)
(* the state of the program run in the foreground: kind "loop" (interactive menu) *)
(* or "cmd" (one command-line run), its state and its exit code                   *)
Process(kind, state, exit) == [kind |-> kind, state |-> state, exit |-> exit]
NoProcess == Process("none", "idle", 0)

Todays == {[y |-> 2025, m |-> 6, d |-> 15]}

AddNames == { <<"f", "o", "x", " ", "a", "l">>,
              <<"a", "L", " ", " ", "F", "O", "X">> }
(* v2 is given a name whose capital form is two characters long *)
AddNamesOf(v) ==
    IF v = "v2" THEN {<<"f", "o", "x", " ", "a", "l">>, <<"U+0149">>} ELSE AddNames
(* faults strike the adds of one gender spelling *)
FaultsOn(gender) == IF gender = <<"M">> THEN Faults ELSE {"none"}
AddDates == { <<"1", "9", "9", "0", "-", "0", "5", "-", "1", "5">>,
              <<"1", "9", "9", "0", "-", "5", "-", "1", "5">>,
              <<"1", "9", "9", "0", "-", "0", "2", "-", "3", "0">> }
AddGenders == { <<"M">>, <<"f">>, <<"x">> }
Counts == {1, batch_size + 1}
(* the database machine injects faults into add; the command loops below inject   *)
(* them into every operation                                                      *)
OtherFaults == {"none"}
Specials == {0, MaxSpecial}
(* the two durations measured by one optimize, in clock ticks *)
Durations == 0..MaxTicks
Timings == {t \in [before : Durations, after : Durations] :
               <<t.before, t.after>> \in {<<0, 1>>, <<1, MaxTicks>>, <<MaxTicks, 1>>}}
(* the dictionaries handed to batch_add_employees: a valid one, one with an     *)
(* unknown gender, one without the gender key                                   *)
BatchEntries ==
    { [full_name |-> <<"a", "L", " ", " ", "F", "O", "X">>,
       birth_date |-> [y |-> 1990, m |-> 5, d |-> 15], gender |-> <<"F">>],
      [full_name |-> <<"f", "o", "x", " ", "a", "l">>,
       birth_date |-> [y |-> 1990, m |-> 5, d |-> 15], gender |-> <<"x">>],
      [full_name |-> <<"f", "o", "x", " ", "a", "l">>,
       birth_date |-> [y |-> 1990, m |-> 5, d |-> 15]] }
BatchLists == UNION {[1..n -> BatchEntries] : n \in {0, MaxBatch}}
(* the INSERT of a generate call of v1 or v3 that fails: none, the first or the *)
(* last of n                                                                    *)
FailsAt(n) == IF version = "v2" THEN {0} ELSE {0} \cup ({1, n} \ {0})
SearchArgs == {[gender |-> Male, name_start |-> <<"F">>],
               [gender |-> Female, name_start |-> <<"a">>]}
(* two outcomes of the random draws of one generate call *)
RandomDraws == {[gender |-> Male, edge |-> "young"], [gender |-> Female, edge |-> "old"]}

Init ==
    /\ AtImport(TRUE, FALSE, TRUE) /\ Disconnected
    /\ fn = "none" /\ input = <<>> /\ out = <<>>
    /\ version \in {"v1", "v2", "v3"}
    /\ today \in Todays
    /\ tableExists = (version = "v3")
    /\ table = EmptyBag
    /\ indexes = {}
    /\ last = [op |-> "none"]
    /\ steps = 0
    /\ proc = NoProcess

Rows(tbl) == BagCardinality(tbl)

(* what every call records: the operation, the fault injected, the         *)
(* exception class that left the call, and the state it started from       *)
Call(op, fault, exc) ==
    [op |-> op, fault |-> fault, exc |-> exc, ok |-> (exc = "none"),
     before |-> table, existed |-> tableExists, idx_before |-> indexes]

(* mutant of CreateTable: creates the table anew *)
CreateTable_drop_first ==
    /\ version \in {"v1", "v2"}
    /\ \E fault \in OtherFaults :
         /\ tableExists' = (tableExists \/ fault = "none")
         /\ table' = IF fault = "none" THEN EmptyBag ELSE table
         /\ last' = Call("create_table", fault, raises(version, "create_table", fault))
    /\ Connected
    /\ UNCHANGED <<logging, fn, input, out, proc, version, today, indexes, steps>>

(* v1 create_table, v2 ensure_table_exists (v3 creates the table at startup) *)
CreateTable ==
    /\ version \in {"v1", "v2"}
    /\ \E fault \in OtherFaults :
         /\ tableExists' = (tableExists \/ fault = "none")
         /\ last' = Call("create_table", fault, raises(version, "create_table", fault))
    /\ Connected
    /\ UNCHANGED <<logging, fn, input, out, proc, version, today, table, indexes, steps>>

AddEmployee ==
    /\ steps < MaxOps
    /\ \E full_name \in AddNamesOf(version), birth_date \in AddDates, gender \in AddGenders :
       \E fault \in FaultsOn(gender) :
         LET r == CASE version = "v1" -> EmployeeDB_add_employee(full_name, birth_date, gender, fault)
                    [] version = "v2" -> EmployeeManager_add_employee(full_name, birth_date, gender, fault)
                    [] version = "v3" -> create_employee(full_name, birth_date, gender, fault)
         IN  /\ table' = IF r.ok THEN table (+) Copies(r.row, 1) ELSE table
             /\ tableExists' = (tableExists \/ r.creates)
             /\ last' = [Call("add", fault, r.exc) EXCEPT !.ok = r.ok] @@
                        [args |-> [full_name |-> full_name, birth_date |-> birth_date,
                                   gender |-> gender],
                         err |-> r.err, status |-> r.status, row |-> r.row]
    /\ steps' = steps + 1
    /\ Connected
    /\ UNCHANGED <<logging, fn, input, out, proc, version, today, indexes>>

GenerateTestData ==
    /\ steps < MaxOps
    /\ \E count \in Counts, special \in Specials, rnd \in RandomDraws,
          fault0 \in OtherFaults :
       \E fail_at \in FailsAt(count + special) :
         LET r == IF version = "v2"
                  THEN EmployeeManager_generate_test_data(today, count, special, rnd)
                  ELSE generate_test_data(today, count, special, rnd)
             fault == IF fail_at = 0 THEN fault0 ELSE "sql"
             done == fault = "none"
             g == generate_test_data_on(table, today, count, special, rnd, fail_at)
         IN  /\ table' = IF version = "v2" THEN (IF done THEN table (+) r.rows ELSE table)
                         ELSE IF fault0 = "none" THEN g.table ELSE table
             /\ tableExists' = (tableExists \/ done \/ ensures(version, "generate", fault))
             /\ last' = Call("generate", fault, raises(version, "generate", fault)) @@
                        [args |-> [count |-> count, special |-> special],
                         fail_at |-> fail_at,
                         count |-> IF done THEN r.count ELSE 0,
                         special |-> IF done THEN r.special ELSE EmptyBag]
    /\ steps' = steps + 1
    /\ Connected
    /\ UNCHANGED <<logging, fn, input, out, proc, version, today, indexes>>

QueryMaleF ==
    /\ \E fault \in OtherFaults :
         /\ last' = Call("query_male_f", fault, raises(version, "query_male_f", fault)) @@
                    [rows |-> IF fault # "none" THEN EmptyBag
                              ELSE IF version = "v2"
                              THEN get_employees_by_gender_and_name_start(table, Male, <<"F">>)
                              ELSE query_male_f(table)]
         /\ tableExists' = (tableExists \/ fault = "none"
                                \/ ensures(version, "query_male_f", fault))
    /\ Connected
    /\ UNCHANGED <<logging, fn, input, out, proc, version, today, table, indexes, steps>>

(* list: v1 get_all_employees, v2 EmployeeManager.get_all_employees, v3 GET /employees/ *)
GetAllEmployees ==
    /\ \E fault \in OtherFaults :
         \E rows \in CASE version = "v1" -> EmployeeDB_get_all_employees(table)
                       [] version = "v2" -> {table}
                       [] version = "v3" -> get_all_employees(table) :
           LET emps == EmployeeManager_get_all_employees(rows)
               exc == IF fault = "none" /\ version = "v2" /\ ~emps.ok THEN emps.err
                      ELSE raises(version, "list", fault)
           IN
           /\ last' = Call("list", fault, exc) @@
                      [rows |-> IF exc # "none" THEN EmptyBag
                                ELSE IF version = "v2" THEN emps.val ELSE rows,
                       order |-> IF exc # "none" THEN <<>> ELSE order_by_full_name(rows)]
           /\ tableExists' = (tableExists \/ fault = "none" \/ ensures(version, "list", fault))
    /\ Connected
    /\ UNCHANGED <<logging, fn, input, out, proc, version, today, table, indexes, steps>>

(* v2 EmployeeManager.batch_add_employees *)
BatchAddEmployees ==
    /\ version = "v2" /\ steps < MaxOps
    /\ \E employees_data \in BatchLists, fault \in OtherFaults :
         LET r == EmployeeManager_batch_add_employees(employees_data)
             done == fault = "none" /\ r.ok
         IN  /\ table' = IF done THEN table (+) r.rows ELSE table
             /\ tableExists' = (tableExists \/ fault = "none"
                                    \/ ensures(version, "generate", fault))
             /\ last' = Call("batch_add", fault,
                             IF fault = "none" THEN r.exc
                             ELSE raises(version, "generate", fault)) @@
                        [employees_data |-> employees_data,
                         added_count |-> IF done THEN r.added_count ELSE 0]
    /\ steps' = steps + 1
    /\ Connected
    /\ UNCHANGED <<logging, fn, input, out, proc, version, today, indexes>>

(* v2 EmployeeManager.search_employees *)
SearchEmployees ==
    /\ version = "v2"
    /\ \E fault \in OtherFaults, a \in SearchArgs :
         /\ last' = Call("search", fault, raises(version, "search", fault)) @@
                    [args |-> a,
                     rows |-> IF fault # "none" THEN EmptyBag
                              ELSE get_employees_by_gender_and_name_start(
                                       table, a.gender, a.name_start)]
         /\ tableExists' = (tableExists \/ ensures(version, "search", fault))
    /\ Connected
    /\ UNCHANGED <<logging, fn, input, out, proc, version, today, table, indexes, steps>>

(* v1: EmployeeDB.optimize_database called on its own *)
OptimizeDatabase ==
    /\ version = "v1"
    /\ \E fault \in OtherFaults :
         LET r == EmployeeDB_optimize_database(tableExists, indexes, fault)
         IN  /\ indexes' = r.indexes
             /\ last' = Call("optimize_database", fault, r.exc) @@
                        [err |-> r.err, trace |-> r.trace]
    /\ Connected
    /\ UNCHANGED <<logging, fn, input, out, proc, version, today, tableExists, table, steps>>

(* the optimize routine: v1 mode 6, v2 optimize_and_test, v3 POST /employees/optimize/ *)
Optimize ==
    /\ \E fault \in OtherFaults, t \in Timings :
         LET r == CASE version = "v1" -> handle_command_6(tableExists, indexes, fault, t)
                    [] version = "v2" -> optimize_and_test(tableExists, indexes, fault, t)
                    [] version = "v3" -> optimize_database(tableExists, indexes, fault, t)
         IN  /\ indexes' = r.indexes
             /\ tableExists' = (tableExists \/ r.creates)
             /\ last' = Call("optimize", fault, r.exc) @@
                        [err |-> r.err, trace |-> r.trace, t |-> t, result |-> r.result]
    /\ Connected
    /\ UNCHANGED <<logging, fn, input, out, proc, version, today, table, steps>>

Next ==
    \/ CreateTable \/ AddEmployee \/ GenerateTestData \/ BatchAddEmployees \/ QueryMaleF
    \/ GetAllEmployees \/ SearchEmployees
    \/ OptimizeDatabase \/ Optimize

Spec == Init /\ [][Next]_vars

(***************************************************************************)
(* The programs around the database: the interactive menus of v1 app.py,   *)
(* v2 EmployeeCLI and v3 client.py, and the command line of v2 app.py.     *)
(* A menu choice or a command-line run is one step; its outcome is         *)
(* [did, exc, shown, table, exists, indexes]: exc is the exception class that   *)
(* leaves the operation, shown the one raised while its result is          *)
(* displayed, the rest the database after the step; did names the          *)
(* operation that was run ("none" when only a message or the help is       *)
(* printed).                                                               *)
(***************************************************************************)
DefaultCount == 1000000
DefaultSpecial == 100

Outcome(did, exc, shown, tbl, exists, idx) ==
    [did |-> did, exc |-> exc, shown |-> shown, table |-> tbl, exists |-> exists,
     indexes |-> idx]
Nothing == Outcome("none", "none", "none", table, tableExists, indexes)

AfterAdd(r) ==
    Outcome("add", r.exc, "none", IF r.ok THEN table (+) Copies(r.row, 1) ELSE table,
            tableExists \/ r.creates, indexes)
AfterGenerate(op_exc, rows, fault) ==
    Outcome("generate", op_exc, "none", IF fault = "none" THEN table (+) rows ELSE table,
            tableExists \/ fault = "none" \/ ensures(version, "generate", fault), indexes)
AfterRead(op, fault, shown) ==
    Outcome(op, raises(version, op, fault), IF fault = "none" THEN shown ELSE "none", table,
            tableExists \/ (version # "v3" /\ fault = "none") \/ ensures(version, op, fault),
            indexes)
AfterCreate(fault) ==
    Outcome("create_table", raises(version, "create_table", fault), "none", table,
            tableExists \/ fault = "none", indexes)
AfterOptimize(r) ==
    Outcome("optimize", r.exc, "none", table, tableExists \/ r.creates, r.indexes)

upper(s) == MapChars(s, "upper")

(* v2 EmployeeCLI.display_employees: calls emp.calculate_age() on each entry *)
display_employees(rows, are_employees) ==
    IF rows = EmptyBag \/ are_employees THEN "none" ELSE "AttributeError"

(* one pass of the while loop of v1 app.py main *)
main(choice, a, fault, rnd, t) ==
    CASE choice = "1" -> AfterCreate(fault)
      [] choice = "2" -> AfterAdd(EmployeeDB_add_employee(a.full_name, a.birth_date, a.gender, fault))
      [] choice = "3" -> AfterRead("list", fault, "none")
      [] choice = "4" -> AfterGenerate(raises("v1", "generate", fault),
                             generate_test_data(today, DefaultCount, DefaultSpecial, rnd).rows,
                             fault)
      [] choice = "5" -> AfterRead("query_male_f", fault, "none")
      [] choice = "6" -> AfterOptimize(handle_command_6(tableExists, indexes, fault, t))
      [] OTHER -> Nothing

(* the exception that leaves the loop of v1 main: it catches RuntimeError only *)
main_uncaught(r) == IF r.exc \in {"none", "RuntimeError"} THEN r.shown ELSE r.exc

(* one pass of the while loop of v2 EmployeeCLI.interactive_mode; choice 2 *)
(* asks again until the date parses and the gender is one it knows, and    *)
(* choice 4 is taken as confirmed with y                                   *)
interactive_mode(choice, a, fault, rnd, t) ==
    CASE choice = "1" -> AfterCreate(fault)
      [] choice = "2" ->
           AfterAdd(EmployeeManager_add_employee(
                        a.full_name, a.birth_date,
                        IF upper(a.gender) \in {<<"1">>, <<"U+041C">>, <<"M">>}
                        THEN <<"M">> ELSE <<"F">>, fault))
      [] choice = "3" -> AfterRead("list", fault, display_employees(table, TRUE))
      [] choice = "4" -> AfterGenerate(raises("v2", "generate", fault),
                             EmployeeManager_generate_test_data(
                                 today, DefaultCount, DefaultSpecial, rnd).rows,
                             fault)
      [] choice = "5" -> AfterRead("query_male_f", fault,
                             display_employees(
                                 get_employees_by_gender_and_name_start(table, Male, <<"F">>),
                                 FALSE))
      [] choice = "6" -> AfterOptimize(optimize_and_test(tableExists, indexes, fault, t))
      [] choice = "7" -> [AfterRead("search", fault, "none") EXCEPT !.exc = "none"]
      [] OTHER -> Nothing

interactive_mode_asks(choice, a) ==
    choice = "2" =>
        /\ strptime(a.birth_date).ok
        /\ upper(a.gender) \in {<<"1">>, <<"U+041C">>, <<"M">>, <<"2">>, <<"U+0416">>, <<"F">>}

(* the exception that leaves the loop of interactive_mode: it catches Exception *)
interactive_mode_uncaught(r) == "none"

(* v3 client.py handle_command: the request is answered by the server      *)
(* (main.py); a failed request or an error status is printed               *)
handle_command(mode, a, fault, rnd, t) ==
    CASE mode = "2" ->
           [AfterAdd(create_employee(a.full_name, a.birth_date, a.gender, fault))
                EXCEPT !.exc = "none"]
      [] mode = "4" -> AfterGenerate("none",
                           generate_test_data(today, DefaultCount, DefaultSpecial, rnd).rows,
                           fault)
      [] mode = "6" ->
           [AfterOptimize(optimize_database(tableExists, indexes, fault, t)) EXCEPT !.exc = "none"]
      [] OTHER -> Nothing

(* one pass of the while loop of v3 client.py main: it catches Exception *)
client_main(choice, a, fault, rnd, t) ==
    IF choice \in {"2", "3", "4", "5", "6"} THEN handle_command(choice, a, fault, rnd, t)
    ELSE Nothing

(* v2 app.py main, modes other than interactive: argparse reads the mode   *)
(* as an int, so the branches that compare it with '6' and '7' never match *)
app_main(mode, enough, a, fault, rnd) ==
    CASE mode = 1 -> AfterCreate(fault)
      [] mode = 2 /\ enough ->
           AfterAdd(EmployeeManager_add_employee(a.full_name, a.birth_date, a.gender, fault))
      [] mode = 3 -> AfterRead("list", fault, display_employees(table, TRUE))
      [] mode = 4 -> AfterGenerate(raises("v2", "generate", fault),
                         EmployeeManager_generate_test_data(
                             today, DefaultCount, DefaultSpecial, rnd).rows,
                         fault)
      [] mode = 5 -> AfterRead("query_male_f", fault,
                         display_employees(
                             get_employees_by_gender_and_name_start(table, Male, <<"F">>),
                             FALSE))
      [] OTHER -> Nothing

(* the exit code of v2 app.py: 2 from argparse, 1 from the except clause *)
exit_code(parsed, r) ==
    IF ~parsed THEN 2
    ELSE IF r.exc # "none" \/ r.shown # "none" THEN 1
    ELSE 0

Choices == {"0", "1", "2", "3", "4", "5", "6", "7", "9"}
ModeArgs == {<<"1">>, <<"2">>, <<"3">>, <<"4">>, <<"5">>, <<"6">>, <<"7">>, <<"8">>, <<"x">>}
CliArgs == [full_name : {<<"f", "o", "x", " ", "a", "l">>},
            birth_date : AddDates, gender : AddGenders]
Counted(c) == c \in {"2", "4"}
(* what is typed after the choice: the employee for 2; the rows drawn for 4 *)
NoArgs == [full_name |-> <<>>, birth_date |-> <<>>, gender |-> <<>>]
ArgsFor(c) == IF c = "2" THEN CliArgs ELSE {NoArgs}
TimingsFor(c) == IF c = "6" THEN Timings ELSE {[before |-> 1, after |-> 1]}
DrawsFor(c) == IF c = "4" THEN RandomDraws ELSE {[gender |-> Male, edge |-> "young"]}

(* app.py / client.py started without arguments (v2: also with mode 0) *)
StartInteractive ==
    /\ proc.state # "running"
    /\ proc' = Process("loop", "running", 0)
    /\ last' = [op |-> "start"]
    /\ UNCHANGED <<connections, logging, fn, input, out, version, today, tableExists, table, indexes, steps>>

Menu ==
    /\ proc.kind = "loop" /\ proc.state = "running"
    /\ \E choice \in Choices, fault \in Faults :
       \E a \in ArgsFor(choice), rnd \in DrawsFor(choice), t \in TimingsFor(choice) :
         LET r == CASE version = "v1" -> main(choice, a, fault, rnd, t)
                    [] version = "v2" -> interactive_mode(choice, a, fault, rnd, t)
                    [] version = "v3" -> client_main(choice, a, fault, rnd, t)
             uncaught == CASE version = "v1" -> main_uncaught(r)
                           [] version = "v2" -> interactive_mode_uncaught(r)
                           [] version = "v3" -> "none"
         IN  /\ Counted(choice) => steps < MaxOps
             /\ version = "v2" => interactive_mode_asks(choice, a)
             /\ table' = r.table /\ tableExists' = r.exists /\ indexes' = r.indexes
             /\ steps' = IF Counted(choice) THEN steps + 1 ELSE steps
             /\ last' = [Call("menu", fault, r.exc) EXCEPT !.ok = (uncaught = "none")] @@
                        [choice |-> choice, did |-> r.did, shown |-> r.shown,
                         uncaught |-> uncaught]
             /\ proc' = IF choice = "0" THEN Process("loop", "exited", 0)
                        ELSE IF uncaught # "none" THEN Process("loop", "crashed", 1)
                        ELSE proc
    /\ Connected
    /\ UNCHANGED <<logging, fn, input, out, version, today>>

(* one run of v2 app.py with a mode argument *)
CommandLine ==
    /\ version = "v2" /\ proc.state # "running"
    /\ \E arg \in ModeArgs, fault \in Faults :
       \E enough \in IF arg \in {<<"2">>, <<"7">>} THEN BOOLEAN ELSE {FALSE},
          a \in ArgsFor(arg[1]), rnd \in DrawsFor(arg[1]) :
         LET parsed == AllDigits(arg)
             mode == IF parsed THEN ToNumber(arg) ELSE 0
             r == IF parsed THEN app_main(mode, enough, a, fault, rnd) ELSE Nothing
             counted == parsed /\ (mode = 4 \/ (mode = 2 /\ enough))
         IN  /\ counted => steps < MaxOps
             /\ table' = r.table /\ tableExists' = r.exists /\ indexes' = r.indexes
             /\ steps' = IF counted THEN steps + 1 ELSE steps
             /\ last' = Call("cmd", fault, r.exc) @@
                        [arg |-> arg, enough |-> enough, did |-> r.did, shown |-> r.shown]
             /\ proc' = Process("cmd", "exited", exit_code(parsed, r))
    /\ Connected
    /\ UNCHANGED <<logging, fn, input, out, version, today>>

NextCli == StartInteractive \/ Menu \/ CommandLine
SpecCli == Init /\ [][NextCli]_vars

(***************************************************************************)
(* SpecLog: the logging module of v2 under calls of its public functions.  *)
(***************************************************************************)
LevelInputs == {DEBUG, INFO, ERROR, <<"d", "e", "b", "u", "g">>, <<"T", "R", "A", "C", "E", "S">>}

InitLog ==
    /\ \E to_console \in BOOLEAN, to_json \in BOOLEAN, dir_ok \in BOOLEAN :
         AtImport(to_console, to_json, dir_ok)
    /\ Disconnected
    /\ fn = "none" /\ input = <<>> /\ out = <<>>
    /\ version = "v2" /\ today \in Todays
    /\ tableExists = FALSE /\ table = EmptyBag /\ indexes = {}
    /\ last = [op |-> "none"] /\ steps = 0 /\ proc = NoProcess

LogCall(op, level, r) ==
    [op |-> op, level |-> level, exc |-> r.exc, initialized |-> _logger_initialized,
     handlers_before |-> handlers]

Logged(op, level, r) ==
    /\ _logger_initialized' = r.initialized
    /\ handlers' = r.handlers
    /\ settings' = r.settings
    /\ last' = LogCall(op, level, r)
    /\ UNCHANGED <<connections, fn, input, out, version, today, tableExists, table, indexes,
                   steps, proc>>

InitLogger ==
    \E level \in {<<>>, DEBUG, ERROR} :
        Logged("init_logger", level, init_logger(_logger_initialized, handlers, settings, level))

(* get_module_logger: initializes the logger when it is not yet *)
GetModuleLogger ==
    Logged("get_module_logger", <<>>,
           init_logger(_logger_initialized, handlers, settings,
                       IF settings.DEBUG_MODE THEN DEBUG ELSE INFO))

SetLogLevel ==
    \E level \in LevelInputs :
        Logged("set_log_level", level,
               set_log_level(_logger_initialized, handlers, settings, level))

NextLog == InitLogger \/ GetModuleLogger \/ SetLogLevel
SpecLog == InitLog /\ [][NextLog]_vars

(***************************************************************************)
(* Inputs of the pure functions.                                           *)
(***************************************************************************)
RECURSIVE SeqsUpTo(_, _)
SeqsUpTo(S, n) ==
    IF n = 0 THEN {<<>>}
    ELSE LET shorter == SeqsUpTo(S, n - 1)
         IN  shorter \cup {Append(s, c) : s \in {t \in shorter : Len(t) = n - 1}, c \in S}

CaseVariants(s) ==
    {t \in [1..Len(s) -> UNION {{LowerChar(s[i])[1], UpperChar(s[i])[1]} : i \in 1..Len(s)}] :
        \A i \in 1..Len(s) : t[i] \in {LowerChar(s[i])[1], UpperChar(s[i])[1]}}

DocumentedGenders == UNION {CaseVariants(s) : s \in MaleSpellings \cup FemaleSpellings}

GenderAlphabet == {"m", "M", "f", "F", "1", "2", "3", "a", "e", " ",
                   "U+043C", "U+041C", "U+0436", "U+0416"}

NearMissGenders ==
    { <<"m", "a", "l">>, <<"m", "a", "l", "e", "s">>, <<"M", "A", "L", "E", " ">>,
      <<"f", "e", "m", "a", "l">>, <<"F", "e", "m", "a", "l", "e", "s">>,
      <<"m", "a", "n">>, <<"1", "1", "1">>, <<" ", "f", " ">> }

GenderInputs == DocumentedGenders \cup SeqsUpTo(GenderAlphabet, MaxGenderLen) \cup NearMissGenders

NameAlphabet == {"f", "F", "a", "_", "U+0149", " ", "\t"}
NameInputs == SeqsUpTo(NameAlphabet, MaxNameLen)

BirthYears == {1990, 1991, 1992}
NowYears == {2020, 2021, 2022}
SampleMonths == {1, 2, 3, 12}
SampleDays == {1, 28, 29, 31}
DatesIn(years) ==
    {dt \in [y : years, m : SampleMonths, d : SampleDays] : ValidDate(dt.y, dt.m, dt.d)}

(***************************************************************************)
(* SpecPure: one pure function applied to one input; out is the sequence   *)
(* of results of applying it once and, where it applies to its own result, *)
(* a second time.                                                          *)
(***************************************************************************)
Idle == /\ version = "none" /\ today = [y |-> 2020, m |-> 1, d |-> 1]
        /\ tableExists = FALSE /\ table = EmptyBag /\ indexes = {}
        /\ last = [op |-> "none"]
        /\ steps = 0
        /\ proc = NoProcess

InitPure ==
    /\ AtImport(TRUE, FALSE, TRUE) /\ Disconnected
    /\ \/ fn = "normalize_gender" /\ input \in GenderInputs
       \/ fn = "normalize_name" /\ input \in NameInputs
       \/ fn = "age" /\ input \in [b : DatesIn(BirthYears), t : DatesIn(NowYears)]
    /\ out = <<>>
    /\ Idle

UnchangedDb == UNCHANGED <<connections, logging, version, today, tableExists, table, indexes, last, steps, proc>>

NormalizeGender ==
    /\ fn = "normalize_gender"
    /\ \/ out = <<>> /\ out' = <<_normalize_gender(input)>>
       \/ Len(out) = 1 /\ out[1].ok /\ out' = Append(out, _normalize_gender(out[1].val))
    /\ UNCHANGED <<fn, input>> /\ UnchangedDb

NormalizeName ==
    /\ fn = "normalize_name"
    /\ \/ out = <<>> /\ out' = <<_normalize_name(input)>>
       \/ Len(out) = 1 /\ out' = Append(out, _normalize_name(out[1]))
    /\ UNCHANGED <<fn, input>> /\ UnchangedDb

CalculateAge ==
    /\ fn = "age" /\ out = <<>>
    /\ out' = <<calculate_age(input.b, input.t)>>
    /\ UNCHANGED <<fn, input>> /\ UnchangedDb

SqlAge ==
    /\ fn = "age" /\ Len(out) = 1
    /\ out' = Append(out, sql_age(isoformat(input.b), isoformat(input.t)))
    /\ UNCHANGED <<fn, input>> /\ UnchangedDb

NextPure == NormalizeGender \/ NormalizeName \/ CalculateAge \/ SqlAge

SpecPure == InitPure /\ [][NextPure]_vars


(***************************************************************************)
(* Claims about the pure functions (checked under SpecPure).               *)
(***************************************************************************)

(* C1: v2 gender normalization yields "Male" exactly when the lower-cased  *)
(* input is one of m, U+043C, male, 1; "Female" exactly when it is one of  *)
(* f, U+0436, female, 2; and raises ValueError for every other input.      *)
C1_GenderNormalization ==
    (fn = "normalize_gender" /\ Len(out) >= 1) =>
        /\ (out[1] = Ok(Male)) <=> (lower(input) \in MaleSpellings)
        /\ (out[1] = Ok(Female)) <=> (lower(input) \in FemaleSpellings)
        /\ (lower(input) \notin MaleSpellings \cup FemaleSpellings)
               => (~out[1].ok /\ out[1].err = "ValueError")

C1_Witness ==
    /\ fn = "normalize_gender"
    /\ input = <<"m", "a", "l", "e", "s">>
    /\ Len(out) = 1 /\ ~out[1].ok

(* C3: over the documented spellings in any letter case normalization      *)
(* succeeds, a second normalization returns the same value, and Male and   *)
(* Female are accepted inputs that map to themselves.                      *)
C3_GenderIdempotent ==
    (fn = "normalize_gender" /\ input \in DocumentedGenders) =>
        /\ Len(out) >= 1 => out[1].ok /\ out[1].val \in {Male, Female}
        /\ Len(out) = 2 => out[2] = out[1]
        /\ (Len(out) >= 1 /\ input \in {Male, Female}) => out[1] = Ok(input)

C3_Witness ==
    /\ fn = "normalize_gender"
    /\ input = <<"U+0416">>
    /\ Len(out) = 2 /\ out[2] = Ok(Female)

(* C7: the age is the difference of the years, minus one exactly when the  *)
(* current (month, day) is before the birth (month, day); 30 on the 30th   *)
(* anniversary, 29 the day before it; the SQL form gives the same number.  *)
PrevDay(dt) ==
    IF dt.d > 1 THEN [dt EXCEPT !.d = dt.d - 1]
    ELSE IF dt.m > 1 THEN [y |-> dt.y, m |-> dt.m - 1, d |-> DaysInMonth(dt.y, dt.m - 1)]
    ELSE [y |-> dt.y - 1, m |-> 12, d |-> 31]

C8_NameIdempotent ==
    (fn = "normalize_name" /\ Len(out) = 2) => out[2] = out[1]

(* C9: the normalized name is the input's whitespace-delimited tokens in   *)
(* order, each with its first character upper-cased and the rest           *)
(* lower-cased, joined by exactly one space, without leading or trailing   *)
(* whitespace; whitespace alone normalizes to the empty text.              *)
TokenSpans(s) ==
    {sp \in (1..Len(s)) \X (1..Len(s)) :
        /\ sp[1] <= sp[2]
        /\ \A k \in sp[1]..sp[2] : ~IsSpace(s[k])
        /\ (sp[1] = 1 \/ IsSpace(s[sp[1] - 1]))
        /\ (sp[2] = Len(s) \/ IsSpace(s[sp[2] + 1]))}
Rank(spans, sp) == Cardinality({q \in spans : q[1] <= sp[1]})

C2_UnknownGenderRejected ==
    (last.op = "add" /\ last.fault = "none" /\ last.args.gender \notin DocumentedGenders) =>
        (~last.ok /\ last.err = "ValueError" /\ table = last.before)

(* C4: in every version the filter query returns exactly the stored rows   *)
(* with gender Male whose full_name starts with an upper-case F.           *)
StartsWithUpperF(r) == r.full_name # <<>> /\ r.full_name[1] = "F"
MaleUpperF(r) == r.gender = Male /\ StartsWithUpperF(r)

C4_FilterExact ==
    (last.op = "query_male_f" /\ last.ok) =>
        last.rows = Select(table, {r \in DOMAIN table : MaleUpperF(r)})

(* C5: in every version a successful generation with count N and special S *)
(* adds exactly N + S rows, and reports the number of rows it inserted.    *)
C5_GenerateAddsAll ==
    (last.op = "generate" /\ last.ok) =>
        /\ Rows(table) - Rows(last.before) = last.args.count + last.args.special
        /\ last.count = Rows(table) - Rows(last.before)

(* C6: after a successful generation with special S, each of the S special *)
(* rows is stored with gender Male and a name the filter query matches, so *)
(* the filter query returns at least S rows.                               *)
FilterResult ==
    IF version = "v2" THEN get_employees_by_gender_and_name_start(table, Male, <<"F">>)
    ELSE query_male_f(table)

C6_SpecialRowsMatch ==
    (last.op = "generate" /\ last.ok) =>
        /\ Rows(last.special) = last.args.special
        /\ \A r \in DOMAIN last.special :
               /\ MaleUpperF(r)
               /\ r \in DOMAIN FilterResult
               /\ FilterResult[r] >= last.special[r]
        /\ Rows(FilterResult) >= last.args.special

C6_Witness ==
    /\ version = "v2"
    /\ last.op = "generate" /\ last.ok
    /\ last.args.special = MaxSpecial /\ last.args.count = batch_size + 1
    /\ Rows(FilterResult) >= MaxSpecial

(* C10: in every version every row stored by add has a full_name made of   *)
(* capitalized words separated by single spaces, and so has every row of   *)
(* the table after any sequence of operations.                             *)
IsCapitalizedWords(name) ==
    /\ \A k \in 1..Len(name) : IsSpace(name[k]) =>
           (name[k] = " " /\ 1 < k /\ k < Len(name) /\ ~IsSpace(name[k + 1]))
    /\ \A k \in 1..Len(name) : ~IsSpace(name[k]) =>
           IF k = 1 \/ IsSpace(name[k - 1])
           THEN UpperChar(name[k]) = <<name[k]>>
           ELSE LowerChar(name[k]) = <<name[k]>>

C10_StoredNamesNormalized ==
    /\ (last.op = "add" /\ last.ok) => IsCapitalizedWords(last.row.full_name)
    /\ \A r \in DOMAIN table : IsCapitalizedWords(r.full_name)


(* C11: in every version every stored birth_date is the zero-padded text   *)
(* YYYY-MM-DD of a valid calendar date; an accepted input in another form  *)
(* is never stored as typed.                                               *)
IsPaddedIsoDate(text) ==
    /\ IsIsoText(text)
    /\ ValidDate(ToNumber(SubSeq(text, 1, 4)), ToNumber(SubSeq(text, 6, 7)),
                 ToNumber(SubSeq(text, 9, 10)))

C11_StoredDatesIso ==
    /\ \A r \in DOMAIN table : IsPaddedIsoDate(r.birth_date)
    /\ (last.op = "add" /\ last.ok /\ ~IsPaddedIsoDate(last.args.birth_date))
           => last.row.birth_date # last.args.birth_date

(* C12: index creation is idempotent in every version: an optimize call on an   *)
(* existing table that already carries the indexes of an earlier call raises no *)
(* error and leaves the set of indexes as it was, with no index name twice.     *)
IsOptimize == last.op \in {"optimize", "optimize_database"}
C12_IndexCreationIdempotent ==
    /\ (IsOptimize /\ last.fault = "none" /\ last.existed /\ last.idx_before # {}) =>
           (last.ok /\ indexes = last.idx_before)
    /\ Cardinality({i.name : i \in indexes}) = Cardinality(indexes)
C12_Witness ==
    /\ IsOptimize /\ last.fault = "none" /\ last.existed /\ last.idx_before # {}
    /\ last.ok /\ Cardinality(indexes) = 3

(* the same for the invocations whose first measurement is not zero: the index  *)
(* creation itself is idempotent                                                *)
ZeroBefore == "t" \in DOMAIN last /\ last.t.before = 0
C12_ExceptZeroBefore ==
    /\ (IsOptimize /\ last.fault = "none" /\ last.existed /\ last.idx_before # {}
            /\ ~ZeroBefore) => last.ok
    /\ (IsOptimize /\ last.fault = "none" /\ last.existed /\ last.idx_before # {}) =>
           indexes = last.idx_before
    /\ Cardinality({i.name : i \in indexes}) = Cardinality(indexes)

(* C13 as stated: in every version a successful optimize leaves exactly three   *)
(* indexes: compound (gender, first letter), gender alone, first letter alone.  *)
IndexColumns == {i.cols : i \in indexes}
C13_SameThreeEverywhere ==
    (IsOptimize /\ last.ok) =>
        /\ Cardinality(indexes) = 3
        /\ IndexColumns = {<<"gender", FirstLetter>>, <<"gender">>, <<FirstLetter>>}

(* C13 amended: a successful optimize leaves exactly three indexes; in v1 and   *)
(* v3 they are on (gender, first letter), gender and first letter; in v2 they   *)
(* are on (gender, first letter), full_name and birth_date.                     *)
C13_ThreeIndexes ==
    (IsOptimize /\ last.ok) =>
        /\ Cardinality(indexes) = 3
        /\ IndexColumns =
             IF version = "v2"
             THEN {<<"gender", FirstLetter>>, <<"full_name">>, <<"birth_date">>}
             ELSE {<<"gender", FirstLetter>>, <<"gender">>, <<FirstLetter>>}
C13_Witness ==
    /\ last.op = "optimize" /\ last.ok /\ version = "v2" /\ last.idx_before = {}
    /\ <<"birth_date">> \in IndexColumns

(* C14: in the optimize routine of every version the filter query runs once     *)
(* before any index is created and sees only the indexes that existed before    *)
(* the call, then the three indexes are created and committed, then the filter  *)
(* query runs once more and sees the committed indexes.                         *)
C14_OptimizeOrdering ==
    (last.op = "optimize" /\ last.fault = "none") =>
        LET t == last.trace
        IN  /\ Len(t) = 6
            /\ t[1].ev = "query" /\ t[1].sees = last.idx_before
            /\ \A i \in 2..4 : t[i].ev = "create_index"
            /\ Cardinality({t[i].name : i \in 2..4}) = 3
            /\ t[5].ev = "commit"
            /\ t[6].ev = "query" /\ t[6].sees = indexes
            /\ {t[i].name : i \in 2..4} \subseteq {x.name : x \in t[6].sees}
C14_Witness ==
    /\ last.op = "optimize" /\ last.fault = "none" /\ last.idx_before = {}
    /\ Len(last.trace) = 6 /\ last.trace[1].sees = {} /\ last.trace[6].sees # {}

(* C15: records are never updated or deleted: in every step of every version    *)
(* each stored record stays stored with the same full_name, birth_date and      *)
(* gender in at least as many copies, and the row count never decreases.        *)
Kept(old, new) ==
    /\ \A r \in DOMAIN old : r \in DOMAIN new /\ new[r] >= old[r]
    /\ Rows(new) >= Rows(old)
C15_NeverUpdatedOrDeleted == [][Kept(table, table')]_vars
C15_Witness ==
    /\ last.op \in {"add", "generate"} /\ last.ok
    /\ last.before # EmptyBag /\ Rows(table) > Rows(last.before)
    /\ Kept(last.before, table)

(* C16: in every version each data operation (add, list, bulk generate, filter, *)
(* optimize) called on a database whose employees table does not exist yet      *)
(* creates the table, completes without error and leaves the table in place;    *)
(* an add that validation rejects is not counted.                               *)
DataOps == {"add", "list", "generate", "query_male_f", "optimize", "optimize_database"}
OnMissingTable ==
    /\ last.op \in DataOps /\ last.fault = "none" /\ ~last.existed
    /\ ~(last.op = "add" /\ ~last.ok)
C16_TableEnsuredLazily == OnMissingTable => (tableExists /\ last.ok)

(* the same with the v1 method optimize_database left out, and an optimize      *)
(* whose first measurement is zero                                              *)
C16_ExceptDirectOptimize ==
    (OnMissingTable /\ last.op # "optimize_database") =>
        (tableExists /\ (last.ok \/ ZeroBefore))

(* C17: v3 POST /employees/ answers 201 exactly when one record was inserted,   *)
(* 400 exactly when birth_date does not parse (nothing inserted), and 500 for   *)
(* every other failure (nothing inserted); there is no other outcome.           *)
InsertedOne == Rows(table) = Rows(last.before) + 1 /\ Kept(last.before, table)
C19_LoopSurvivesErrors ==
    (proc.kind = "loop" /\ last.op = "menu") =>
        IF last.choice = "0" THEN proc.state = "exited" ELSE proc.state = "running"

(* the same for v2 and the v3 client alone *)
C19_ExceptV1 == version # "v1" => C19_LoopSurvivesErrors

(* C20: a command-line run of v2 exits with code 1 exactly when the selected    *)
(* operation raised a validation or infrastructure error; when it succeeds, or  *)
(* when only the help is printed, the exit code is not 1.                       *)
C20_ExitCodeOne ==
    (proc.kind = "cmd" /\ last.op = "cmd") =>
        (proc.exit = 1 <=> last.exc \in {"ValueError", "RuntimeError"})

(* the same for runs that display no row *)
C20_ExceptDisplay ==
    (proc.kind = "cmd" /\ last.op = "cmd" /\ last.shown = "none") =>
        (proc.exit = 1 <=> last.exc \in {"ValueError", "RuntimeError"})

(* C21: in v2 a command-line run with mode n in 1..7 and enough arguments runs  *)
(* the same manager operation as menu choice n: 1 ensure table, 2 add, 3 list,  *)
(* 4 generate, 5 filter query, 6 optimize, 7 search.                            *)
ManagerOperation ==
    <<"create_table", "add", "list", "generate", "query_male_f", "optimize", "search">>
ModeRun ==
    /\ version = "v2" /\ last.op = "cmd"
    /\ AllDigits(last.arg) /\ ToNumber(last.arg) \in 1..7
    /\ (last.arg \in {<<"2">>, <<"7">>}) => last.enough
ChoiceRun ==
    /\ version = "v2" /\ last.op = "menu"
    /\ last.choice \in {"1", "2", "3", "4", "5", "6", "7"}
C21_ModesMirrorMenu ==
    /\ ModeRun => last.did = ManagerOperation[ToNumber(last.arg)]
    /\ ChoiceRun => last.did = ManagerOperation[ToNumber(<<last.choice>>)]

(* the same for modes 1..5 *)
C21_ExceptModes6And7 ==
    /\ (ModeRun /\ ToNumber(last.arg) \in 1..5) => last.did = ManagerOperation[ToNumber(last.arg)]
    /\ ChoiceRun => last.did = ManagerOperation[ToNumber(<<last.choice>>)]

(* C22: in every version the list result has exactly one entry per stored       *)
(* record, with the stored values, ordered by full_name ascending.              *)
AsStored(e) ==
    IF version = "v2" THEN Row(e.full_name, isoformat(e.birth_date), e.gender) ELSE e
StoredCopies(e) ==
    IF AsStored(e) \in DOMAIN table THEN table[AsStored(e)] ELSE 0
C22_ListReturnsAll ==
    (last.op = "list" /\ last.ok) =>
        /\ Rows(last.rows) = Rows(table)
        /\ \A e \in DOMAIN last.rows : last.rows[e] <= StoredCopies(e)
        /\ {n : n \in {last.order[i] : i \in DOMAIN last.order}} = {r.full_name : r \in DOMAIN table}
        /\ \A i, j \in DOMAIN last.order : i < j => BinaryLess(last.order[i], last.order[j])

(* the same for v3, and for v2 while normalization leaves every stored name      *)
(* unchanged                                                                    *)
C22_ExceptV1 ==
    (version # "v1" /\ \A r \in DOMAIN table :
                          version = "v2" => _normalize_name(r.full_name) = r.full_name)
        => C22_ListReturnsAll

(* C23: every record inserted by bulk generation has a birth date whose age on  *)
(* the generation date, by the program's own age rule (the SQL expression in v1 *)
(* and v3, Employee.calculate_age in v2), lies in 18..65.                       *)
AgeOnToday(birth_text) ==
    IF version = "v2" THEN calculate_age(strptime(birth_text).val, today)
    ELSE sql_age(birth_text, isoformat(today)).val
Generated == table (-) last.before
C23_GeneratedAdults ==
    (last.op = "generate" /\ last.ok) =>
        \A r \in DOMAIN Generated : AgeOnToday(r.birth_date) \in 18..65

(* the same for v2 *)
C23_ExceptV1V3 == version = "v2" => C23_GeneratedAdults

(* C24: in every version the optimize operation returns the two measured        *)
(* durations and the improvement (before - after) / before * 100 for every pair *)
(* of durations, a 'before' of zero and an 'after' above 'before' included; it  *)
(* never fails because of the values measured.                                  *)
C24_ImprovementReturned ==
    (last.op = "optimize" /\ last.fault = "none") =>
        /\ last.ok
        /\ last.result.before = last.t.before /\ last.result.after = last.t.after
        /\ last.result.improvement.den # 0
        /\ last.result.improvement.num * last.t.before =
               (last.t.before - last.t.after) * 100 * last.result.improvement.den

(* the same for the pairs whose 'before' is not zero *)
C24_ExceptZeroBefore == ~ZeroBefore => C24_ImprovementReturned
C24_SlowerAfter ==
    /\ last.op = "optimize" /\ last.ok /\ last.t.after > last.t.before
    /\ last.result.improvement.num < 0

(* C25: v2 batch_add_employees skips the entries that lack a key or carry an    *)
(* unrecognized gender without aborting the batch, inserts every valid entry in *)
(* normalized form, and returns the number of valid entries, which is the       *)
(* increase of the row count; with no valid entry it inserts nothing and        *)
(* returns 0.                                                                   *)
ValidEntry(e) ==
    /\ {"full_name", "birth_date", "gender"} \subseteq DOMAIN e
    /\ _normalize_gender(e.gender).ok
ValidAt(data) == {i \in DOMAIN data : ValidEntry(data[i])}
NormalizedRow(e) ==
    Row(_normalize_name(e.full_name), isoformat(e.birth_date), _normalize_gender(e.gender).val)
InsertedCopies(data, row) ==
    Cardinality({i \in ValidAt(data) : NormalizedRow(data[i]) = row})
C25_BatchSkipsInvalid ==
    (last.op = "batch_add" /\ last.fault = "none") =>
        LET data == last.employees_data
            new == table (-) last.before
        IN  /\ last.ok
            /\ last.before \sqsubseteq table
            /\ \A i \in ValidAt(data) :
                   CopiesIn(NormalizedRow(data[i]), new) = InsertedCopies(data, NormalizedRow(data[i]))
            /\ \A row \in DOMAIN new : \E i \in ValidAt(data) : NormalizedRow(data[i]) = row
            /\ last.added_count = Cardinality(ValidAt(data))
            /\ Rows(table) = Rows(last.before) + last.added_count
            /\ (ValidAt(data) = {}) => (table = last.before /\ last.added_count = 0)
C25_Witness ==
    /\ last.op = "batch_add" /\ last.ok /\ Len(last.employees_data) = 2
    /\ Cardinality(ValidAt(last.employees_data)) = 1
    /\ Rows(table) = Rows(last.before) + 1 /\ last.added_count = 1

(* C26: the v2 filter-query command (interactive choice 5, command-line mode 5) *)
(* completes without error for any table contents, matching records included:   *)
(* the manager returns Employee objects and the display shows each with its age.*)
FilterCommand ==
    /\ version = "v2"
    /\ \/ last.op = "menu" /\ last.choice = "5"
       \/ last.op = "cmd" /\ last.arg = <<"5">>
    /\ last.fault = "none"
MatchesBefore == get_employees_by_gender_and_name_start(last.before, Male, <<"F">>)
C26_FilterCommandCompletes ==
    FilterCommand => (last.exc = "none" /\ last.shown = "none" /\ last.did = "query_male_f")

(* the same for tables without a matching record *)
C26_ExceptMatches ==
    (FilterCommand /\ MatchesBefore = EmptyBag) =>
        (last.exc = "none" /\ last.shown = "none" /\ last.did = "query_male_f")

(* C27: v2 logging: after set_log_level(L) returns for a valid level L, called  *)
(* after the logger was initialized, every enabled sink (console, file, JSON as *)
(* configured) is registered again, at level L; a call of set_log_level never   *)
(* leaves the logger with no sink.                                              *)
EnabledAt(level) ==
    (IF settings.LOG_TO_CONSOLE THEN {Handler("console", level)} ELSE {})
    \cup {Handler("file", level)}
    \cup (IF settings.LOG_TO_JSON THEN {Handler("json", level)} ELSE {})
C27_SinksReRegistered ==
    /\ (last.op = "set_log_level" /\ last.exc = "none" /\ last.initialized) =>
           handlers = EnabledAt(MapChars(last.level, "upper"))
    /\ (last.op = "set_log_level") => handlers # {}

(* the same for the calls made before the logger was initialized *)
C27_ExceptInitialized ==
    (last.op = "set_log_level" /\ last.exc = "none" /\ ~last.initialized) =>
        (handlers = EnabledAt(MapChars(last.level, "upper")) /\ handlers # {})
C27_WitnessBeforeInit ==
    /\ last.op = "set_log_level" /\ last.exc = "none" /\ ~last.initialized
    /\ Cardinality(handlers) = 3

(* C28: bulk generation is all-or-nothing in v1 and v3: when an insert of a     *)
(* generate_test_data call fails before the final commit none of the records of *)
(* the call is stored; the row count grows by 0 or by exactly count + special.  *)
C28_GenerateAllOrNothing ==
    (version \in {"v1", "v3"} /\ last.op = "generate") =>
        /\ Rows(table) - Rows(last.before) \in {0, last.args.count + last.args.special}
        /\ ~last.ok => table = last.before
        /\ last.ok => Rows(table) = Rows(last.before) + last.args.count + last.args.special
C28_Witness ==
    /\ version \in {"v1", "v3"} /\ last.op = "generate" /\ ~last.ok
    /\ last.fail_at > 1 /\ last.fail_at = last.args.count + last.args.special
    /\ last.before # EmptyBag /\ table = last.before

(* C29: v2 add/list round trip: the Employee returned by a successful           *)
(* add_employee (the values stored) is found again, equal in full_name,         *)
(* birth_date and gender, in the result of get_all_employees: normalizing the   *)
(* stored values again on read does not change them.                            *)
ReturnedByAdd(r) ==
    [full_name |-> r.full_name, birth_date |-> strptime(r.birth_date).val, gender |-> r.gender]
C29_AddListRoundTrip ==
    (version = "v2" /\ last.op = "list" /\ last.ok) =>
        \A r \in DOMAIN table : ReturnedByAdd(r) \in DOMAIN last.rows

(* the same for the stored names that normalization leaves unchanged *)
C29_ExceptExpandingCapital ==
    (version = "v2" /\ last.op = "list" /\ last.ok) =>
        \A r \in DOMAIN table :
            _normalize_name(r.full_name) = r.full_name
                => ReturnedByAdd(r) \in DOMAIN last.rows

(* C30: no connection is left open: in v1 EmployeeDB and v2 Database every      *)
(* connection opened during a public operation is closed when the operation     *)
(* returns or raises, and the conn field is None afterwards, also when the      *)
(* table is missing and _ensure_table_exists calls create_table.                *)
C30_NoConnectionLeftOpen ==
    (version \in {"v1", "v2"}) => (conn = None /\ opened = {})

(* the conn field alone, and the connections of v2 *)
C30_ExceptEnsureConnection ==
    (version \in {"v1", "v2"}) =>
        /\ conn = None
        /\ opened \subseteq {"_ensure_table_exists"}
        /\ version = "v2" => opened = {}


====
